---- MODULE Spec2Model ----
(***************************************************************************)
(* Student record manager (Student_manage_system): the Student record, its *)
(* validators, and the StudentManagementSystem roster with its text file.  *)
(*                                                                         *)
(* Representation.  A std::string is a sequence of one-character tokens.   *)
(* An ASCII character is the one-letter string of itself; a CJK character  *)
(* of the source is the token "Uxxxx" of its code point and counts three   *)
(* bytes (UTF-8), so that length() and find() see what the program sees.   *)
(* A float score is an integer number of 1/100000 units (95.0 is           *)
(* 9500000); NaN and the values beyond that grid are the sentinels below.  *)
(***************************************************************************)
EXTENDS Integers, Sequences, FiniteSets, TLC

\* students: the roster students_; disk: the working file students.csv;
\* call, ret, log, stat: the last call, what it returned (or threw), the
\* log lines it wrote and load's two counters; before: the roster when the
\* last call began; saved: the roster as the last save to the working file
\* wrote it; record: a Student object a caller holds outside the roster,
\* and record_before: that object when the last call on it began.
VARIABLES students, disk, call, ret, log, stat, before, saved, record, record_before

vars ==
    <<students, disk, call, ret, log, stat, before, saved, record, record_before>>

----------------------------------------------------------------------------
(* Characters and strings                                                  *)

Digit == {"0", "1", "2", "3", "4", "5", "6", "7", "8", "9"}

Lower == {"a", "b", "c", "d", "e", "f", "g", "h", "i", "j", "k", "l", "m",
          "n", "o", "p", "q", "r", "s", "t", "u", "v", "w", "x", "y", "z"}

Upper == {"A", "B", "C", "D", "E", "F", "G", "H", "I", "J", "K", "L", "M",
          "N", "O", "P", "Q", "R", "S", "T", "U", "V", "W", "X", "Y", "Z"}

Alpha == Lower \cup Upper

\* The CJK characters the source uses, by code point.
CJK == {"U7537", "U5973", "U5B66", "U53F7", "U59D3", "U540D", "U6027",
        "U522B", "U73ED", "U7EA7", "U7535", "U8BDD", "U90AE", "U7BB1",
        "U6210", "U7EE9", "U4FE1", "U606F", "U65E0", "U5F20", "U4E09"}

\* std::string::length() counts bytes: three for each CJK character.
RECURSIVE length(_)
length(s) ==
    IF s = <<>> THEN 0
    ELSE (IF Head(s) \in CJK THEN 3 ELSE 1) + length(Tail(s))

empty(s) == s = <<>>

\* s.substr(from) and s.substr(0, n) on 1-based token positions.
SubFrom(s, from) == SubSeq(s, from, Len(s))
SubUpTo(s, n) == SubSeq(s, 1, n)

\* s.find(c) for one character: the first position, 0 for npos.
FindChar(s, c) ==
    IF \E i \in 1..Len(s) : s[i] = c
    THEN CHOOSE i \in 1..Len(s) : s[i] = c /\ \A j \in 1..(i - 1) : s[j] # c
    ELSE 0

\* s.find(t) != npos for a string t (the empty t is found in every s).
Contains(s, t) ==
    \E i \in 1..(Len(s) - Len(t) + 1) : SubSeq(s, i, i + Len(t) - 1) = t

AllIn(s, class) == \A i \in 1..Len(s) : s[i] \in class

\* Byte-wise operator< of std::string on digit strings.
CharCode(c) ==
    CASE c = "0" -> 48 [] c = "1" -> 49 [] c = "2" -> 50 [] c = "3" -> 51
      [] c = "4" -> 52 [] c = "5" -> 53 [] c = "6" -> 54 [] c = "7" -> 55
      [] c = "8" -> 56 [] c = "9" -> 57 [] OTHER -> 128

RECURSIVE StrLess(_, _)
StrLess(a, b) ==
    IF b = <<>> THEN FALSE
    ELSE IF a = <<>> THEN TRUE
    ELSE IF Head(a) = Head(b) THEN StrLess(Tail(a), Tail(b))
    ELSE CharCode(Head(a)) < CharCode(Head(b))

----------------------------------------------------------------------------
(* Student: validators (each yields "ok" or the reason of the              *)
(* std::invalid_argument it throws)                                        *)

validate_id(id) ==
    IF empty(id) THEN "id_empty"
    ELSE IF ~(Len(id) = 10 /\ AllIn(id, Digit)) THEN "id_format"
    ELSE "ok"

validate_name(name) ==
    IF empty(name) THEN "name_empty"
    ELSE IF length(name) < 2 \/ length(name) > 20 THEN "name_length"
    ELSE "ok"

validate_gender(gender) ==
    IF gender # <<"U7537">> /\ gender # <<"U5973">> THEN "gender_value"
    ELSE "ok"

validate_class_id(class_id) ==
    IF empty(class_id) THEN "class_empty"
    ELSE IF length(class_id) < 3 THEN "class_format"
    ELSE "ok"

\* ^1[3-9]\d{9}$
validate_phone(phone) ==
    IF Len(phone) = 11 /\ phone[1] = "1"
       /\ phone[2] \in {"3", "4", "5", "6", "7", "8", "9"}
       /\ AllIn(phone, Digit)
    THEN "ok" ELSE "phone_format"

\* ^[a-zA-Z0-9._%+-]+@[a-zA-Z0-9.-]+\.[a-zA-Z]{2,}$
EmailLocal == Alpha \cup Digit \cup {".", "_", "%", "+", "-"}
EmailDomain == Alpha \cup Digit \cup {".", "-"}

validate_email(email) ==
    IF \E at \in 1..Len(email) : \E dot \in (at + 1)..Len(email) :
         /\ email[at] = "@"
         /\ email[dot] = "."
         /\ at > 1
         /\ AllIn(SubSeq(email, 1, at - 1), EmailLocal)
         /\ dot > at + 1
         /\ AllIn(SubSeq(email, at + 1, dot - 1), EmailDomain)
         /\ Len(email) - dot >= 2
         /\ AllIn(SubSeq(email, dot + 1, Len(email)), Alpha)
    THEN "ok" ELSE "email_format"

\* Student() = default: every string empty, no scores.
NoScores == [s \in {} |-> 0]

DefaultStudent ==
    [id |-> <<>>, name |-> <<>>, gender |-> <<>>, class_id |-> <<>>,
     phone |-> <<>>, email |-> <<>>, scores |-> NoScores]

\* The order in which the constructor validates, and the first failure.
FirstError(checks) ==
    IF \E i \in 1..Len(checks) : checks[i] # "ok"
    THEN checks[CHOOSE i \in 1..Len(checks) :
                   checks[i] # "ok" /\ \A j \in 1..(i - 1) : checks[j] = "ok"]
    ELSE "ok"

\* The constructor with validate_name called before validate_id.
Student_name_first(id, name, gender, class_id, phone, email) ==
    LET err == FirstError(<<validate_name(name), validate_id(id),
                            validate_gender(gender),
                            validate_class_id(class_id),
                            IF ~empty(phone) THEN validate_phone(phone)
                                             ELSE "ok",
                            IF ~empty(email) THEN validate_email(email)
                                             ELSE "ok">>)
    IN  [threw |-> err,
         obj |-> [id |-> id, name |-> name, gender |-> gender,
                  class_id |-> class_id, phone |-> phone, email |-> email,
                  scores |-> NoScores]]

\* Student(id, name, gender, class_id, phone, email): threw is "ok" and obj
\* the object, or threw is the reason and no object exists.
Student(id, name, gender, class_id, phone, email) ==
    LET err == FirstError(<<validate_id(id), validate_name(name),
                            validate_gender(gender),
                            validate_class_id(class_id),
                            IF ~empty(phone) THEN validate_phone(phone)
                                             ELSE "ok",
                            IF ~empty(email) THEN validate_email(email)
                                             ELSE "ok">>)
    IN  [threw |-> err,
         obj |-> [id |-> id, name |-> name, gender |-> gender,
                  class_id |-> class_id, phone |-> phone, email |-> email,
                  scores |-> NoScores]]

is_valid(s) ==
    ~empty(s.id) /\ ~empty(s.name) /\ ~empty(s.gender) /\ ~empty(s.class_id)

----------------------------------------------------------------------------
(* float scores                                                            *)

\* One unit of the score grid: 1.0f is Unit units.
Unit == 100000

\* The float values outside the grid: NaN, and anything above / below it
\* (infinities included).
NaN == -1000000000
TooBig == 2000000000
TooSmall == -2000000000

\* score < 0 || score > 100 as IEEE comparisons: both are false for NaN.
OutOfRange(score) == score # NaN /\ (score < 0 \/ score > 100 * Unit)

\* set_score with scores_[subject] += score for scores_[subject] = score.
set_score_add(s, subject, score) ==
    IF empty(subject) THEN [threw |-> "subject_empty", obj |-> s]
    ELSE IF OutOfRange(score) THEN [threw |-> "score_range", obj |-> s]
    ELSE [threw |-> "ok",
          obj |-> [s EXCEPT !.scores =
                     [k \in (DOMAIN s.scores) \cup {subject} |->
                        IF k # subject THEN s.scores[k]
                        ELSE IF k \in DOMAIN s.scores
                             THEN s.scores[k] + score
                        ELSE score]]]

\* Student::set_score: threw is "ok" and obj the changed object, or threw
\* is the reason and the object is as it was.
set_score(s, subject, score) ==
    IF empty(subject) THEN [threw |-> "subject_empty", obj |-> s]
    ELSE IF OutOfRange(score) THEN [threw |-> "score_range", obj |-> s]
    ELSE [threw |-> "ok",
          obj |-> [s EXCEPT !.scores =
                     [k \in (DOMAIN s.scores) \cup {subject} |->
                        IF k = subject THEN score ELSE s.scores[k]]]]

\* Student::get_score: the stored score, -1.0f when the subject is absent.
get_score(s, subject) ==
    IF subject \in DOMAIN s.scores THEN s.scores[subject] ELSE 0 - Unit

RECURSIVE SumScores(_, _)
SumScores(s, subjects) ==
    IF subjects = {} THEN 0
    ELSE LET k == CHOOSE x \in subjects : TRUE
         IN  s.scores[k] + SumScores(s, subjects \ {k})

\* Student::get_average_score: 0.0f without scores, else sum / size; a sum
\* with a NaN in it is NaN.
get_average_score(s) ==
    IF DOMAIN s.scores = {} THEN 0
    ELSE IF \E k \in DOMAIN s.scores : s.scores[k] = NaN THEN NaN
    ELSE SumScores(s, DOMAIN s.scores) \div Cardinality(DOMAIN s.scores)

\* The setters: the validator first, then the assignment.  threw is "ok"
\* and obj the changed object, or threw is the reason and the object is as
\* it was.
set_id(s, id) ==
    IF validate_id(id) # "ok" THEN [threw |-> validate_id(id), obj |-> s]
    ELSE [threw |-> "ok", obj |-> [s EXCEPT !.id = id]]

\* set_name without validate_name.
set_name_unchecked(s, name) ==
    [threw |-> "ok", obj |-> [s EXCEPT !.name = name]]

set_name(s, name) ==
    IF validate_name(name) # "ok"
    THEN [threw |-> validate_name(name), obj |-> s]
    ELSE [threw |-> "ok", obj |-> [s EXCEPT !.name = name]]

set_gender(s, gender) ==
    IF validate_gender(gender) # "ok"
    THEN [threw |-> validate_gender(gender), obj |-> s]
    ELSE [threw |-> "ok", obj |-> [s EXCEPT !.gender = gender]]

set_class_id(s, class_id) ==
    IF validate_class_id(class_id) # "ok"
    THEN [threw |-> validate_class_id(class_id), obj |-> s]
    ELSE [threw |-> "ok", obj |-> [s EXCEPT !.class_id = class_id]]

\* set_phone calling validate_phone for the empty string too.
set_phone_always(s, phone) ==
    IF validate_phone(phone) # "ok"
    THEN [threw |-> validate_phone(phone), obj |-> s]
    ELSE [threw |-> "ok", obj |-> [s EXCEPT !.phone = phone]]

set_phone(s, phone) ==
    IF ~empty(phone) /\ validate_phone(phone) # "ok"
    THEN [threw |-> validate_phone(phone), obj |-> s]
    ELSE [threw |-> "ok", obj |-> [s EXCEPT !.phone = phone]]

set_email(s, email) ==
    IF ~empty(email) /\ validate_email(email) # "ok"
    THEN [threw |-> validate_email(email), obj |-> s]
    ELSE [threw |-> "ok", obj |-> [s EXCEPT !.email = email]]

RECURSIVE Pow10(_)
Pow10(k) == IF k <= 0 THEN 1 ELSE 10 * Pow10(k - 1)

DigitChar(d) ==
    CASE d = 0 -> "0" [] d = 1 -> "1" [] d = 2 -> "2" [] d = 3 -> "3"
      [] d = 4 -> "4" [] d = 5 -> "5" [] d = 6 -> "6" [] d = 7 -> "7"
      [] d = 8 -> "8" [] d = 9 -> "9"

DigitVal(c) == CharCode(c) - 48

RECURSIVE DigitsOf(_)
DigitsOf(n) ==
    IF n < 10 THEN <<DigitChar(n)>>
    ELSE Append(DigitsOf(n \div 10), DigitChar(n % 10))

RECURSIVE StripZeros(_)
StripZeros(s) ==
    IF s # <<>> /\ s[Len(s)] = "0" THEN StripZeros(SubUpTo(s, Len(s) - 1))
    ELSE s

\* The five decimals of a fraction of one unit, zero padded.
Frac5(fp) ==
    LET d == DigitsOf(fp)
    IN  [i \in 1..(5 - Len(d)) |-> "0"] \o d

\* operator<<(std::ostream&, float) with the default precision of 6
\* significant digits (%g): rounds the value to 6 digits, drops trailing
\* zeros, and uses the exponent form below 1e-4.
FormatScore(v) ==
    IF v = NaN THEN <<"n", "a", "n">>
    ELSE IF v = 0 THEN <<"0">>
    ELSE IF v < 10 THEN <<DigitChar(v), "e", "-", "0", "5">>
    ELSE LET nd == Len(DigitsOf(v))
             p  == Pow10(nd - 6)
             r  == ((v + (p \div 2)) \div p) * p
             ip == r \div Unit
             fp == r % Unit
         IN  DigitsOf(ip) \o
             (IF fp = 0 THEN <<>> ELSE <<".">> \o StripZeros(Frac5(fp)))

\* The length of the longest prefix of s made of characters of class.
LeadRun(s, class) ==
    CHOOSE k \in 0..Len(s) :
        /\ \A i \in 1..k : s[i] \in class
        /\ (k = Len(s) \/ s[k + 1] \notin class)

RECURSIVE ToInt(_)
ToInt(ds) ==
    IF ds = <<>> THEN 0
    ELSE IF Len(ds) > 4 THEN 9999
    ELSE 10 * ToInt(SubUpTo(ds, Len(ds) - 1)) + DigitVal(ds[Len(ds)])

RECURSIVE GridSum(_, _, _)
\* The value, in units, of digits D from position k on, D[k] weighing
\* 10^w units; digits below one unit are beyond the grid.
GridSum(D, k, w) ==
    IF k > Len(D) \/ w < 0 THEN 0
    ELSE DigitVal(D[k]) * Pow10(w) + GridSum(D, k + 1, w - 1)

\* The float of the decimal digits D whose first ni digits stand before
\* the point, times 10^exp; p is the position of the first digit that is
\* not 0 and e10 the power of ten that digit stands for.  strtof reports
\* ERANGE for what lies beyond the range of a float.
StofValue(D, p, e10) ==
    IF p > Len(D) THEN [threw |-> "ok", val |-> 0]
    ELSE IF e10 > 38 \/ e10 < 0 - 38 THEN [threw |-> "out_of_range", val |-> 0]
    ELSE IF e10 >= 3 THEN [threw |-> "ok", val |-> TooBig]
    ELSE [threw |-> "ok", val |-> GridSum(D, p, e10 + 5)]

\* The exponent part, if s3 (what follows the mantissa) begins with one:
\* e or E, an optional sign, and at least one digit.
StofExp(s5, eneg, ne) ==
    IF ne = 0 THEN 0
    ELSE IF eneg THEN 0 - ToInt(SubUpTo(s5, ne))
    ELSE ToInt(SubUpTo(s5, ne))

StofExpOf(s3) ==
    IF s3 = <<>> \/ s3[1] \notin {"e", "E"} THEN 0
    ELSE IF Len(s3) >= 2 /\ s3[2] \in {"+", "-"}
         THEN StofExp(SubFrom(s3, 3), s3[2] = "-",
                      LeadRun(SubFrom(s3, 3), Digit))
    ELSE StofExp(Tail(s3), FALSE, LeadRun(Tail(s3), Digit))

\* The mantissa: ni digits, then, if dot, a point and nf digits.
StofMantissa(s1, ni, dot, nf) ==
    IF ni + nf = 0 THEN [threw |-> "invalid_argument", val |-> 0]
    ELSE StofValue(
           SubUpTo(s1, ni) \o (IF dot THEN SubSeq(s1, ni + 2, ni + 1 + nf)
                                      ELSE <<>>),
           LeadRun(SubUpTo(s1, ni)
                   \o (IF dot THEN SubSeq(s1, ni + 2, ni + 1 + nf) ELSE <<>>),
                   {"0"}) + 1,
           ni - (LeadRun(SubUpTo(s1, ni)
                         \o (IF dot THEN SubSeq(s1, ni + 2, ni + 1 + nf)
                                    ELSE <<>>),
                         {"0"}) + 1)
           + StofExpOf(SubFrom(s1, ni + (IF dot THEN nf + 1 ELSE 0) + 1)))

StofDigits(s1, ni) ==
    IF Len(s1) > ni /\ s1[ni + 1] = "."
    THEN StofMantissa(s1, ni, TRUE, LeadRun(SubFrom(s1, ni + 2), Digit))
    ELSE StofMantissa(s1, ni, FALSE, 0)

\* What follows the sign: nan, inf, or a decimal number.
StofUnsigned(s1) ==
    IF /\ Len(s1) >= 3 /\ s1[1] \in {"n", "N"}
       /\ s1[2] \in {"a", "A"} /\ s1[3] \in {"n", "N"}
    THEN [threw |-> "ok", val |-> NaN]
    ELSE IF /\ Len(s1) >= 3 /\ s1[1] \in {"i", "I"}
            /\ s1[2] \in {"n", "N"} /\ s1[3] \in {"f", "F"}
    THEN [threw |-> "ok", val |-> TooBig]
    ELSE StofDigits(s1, LeadRun(s1, Digit))

StofNegate(r) ==
    [threw |-> r.threw,
     val |-> IF r.val = NaN THEN NaN
             ELSE IF r.val = TooBig THEN TooSmall
             ELSE 0 - r.val]

StofSigned(s0) ==
    IF s0 # <<>> /\ s0[1] = "-" THEN StofNegate(StofUnsigned(Tail(s0)))
    ELSE IF s0 # <<>> /\ s0[1] = "+" THEN StofUnsigned(Tail(s0))
    ELSE StofUnsigned(s0)

\* std::stof(str): strtof on the longest numeric prefix after leading
\* white space.  threw is "ok" with the value, "invalid_argument" when no
\* conversion is possible, "out_of_range" when strtof reports ERANGE.
stof(str) == StofSigned(SubFrom(str, LeadRun(str, {" "}) + 1))

----------------------------------------------------------------------------
(* The text file: a sequence of lines, each line a string                  *)

Comma == <<",">>

\* The header line both save variants write.
Header ==
    <<"U5B66", "U53F7", ",", "U59D3", "U540D", ",", "U6027", "U522B", ",",
      "U73ED", "U7EA7", ",", "U7535", "U8BDD", ",", "U90AE", "U7BB1", ",",
      "U6210", "U7EE9", "U4FE1", "U606F">>

\* The token load looks for in the first line.
HeaderToken == <<"U5B66", "U53F7">>

\* The marker written for a record without scores.
NoScoresMark == <<"U65E0", "U6210", "U7EE9">>

RECURSIVE Perms(_)
\* unordered_map iteration visits the keys in an unspecified order: every
\* order of the set S.
Perms(S) ==
    IF S = {} THEN {<<>>}
    ELSE UNION {{<<x>> \o q : q \in Perms(S \ {x})} : x \in S}

RECURSIVE ScoresText(_, _)
\* subject:score joined by ';' in the order ord.
ScoresText(s, ord) ==
    IF ord = <<>> THEN <<>>
    ELSE Head(ord) \o <<":">> \o FormatScore(s.scores[Head(ord)])
         \o (IF Tail(ord) = <<>> THEN <<>>
             ELSE <<";">> \o ScoresText(s, Tail(ord)))

\* One data line of save_to_file / save_to_excel_file.
LineOf(s, ord) ==
    s.id \o Comma \o s.name \o Comma \o s.gender \o Comma \o s.class_id
    \o Comma \o s.phone \o Comma \o s.email \o Comma
    \o (IF DOMAIN s.scores # {} THEN ScoresText(s, ord) ELSE NoScoresMark)

\* The iteration orders a roster's score maps can show, one per record.
ScoreOrders(roster) ==
    {f \in [1..Len(roster) ->
              UNION {Perms(DOMAIN roster[i].scores) : i \in 1..Len(roster)}] :
        \A i \in 1..Len(roster) : f[i] \in Perms(DOMAIN roster[i].scores)}

\* The lines a save writes for the roster with the iteration orders ords.
FileLines(roster, ords) ==
    <<Header>> \o [i \in 1..Len(roster) |-> LineOf(roster[i], ords[i])]

\* std::getline(stream, field, delim) on what is left of the stream: fails
\* when nothing is left, else takes the text up to the first delim (which
\* it consumes) or up to the end.
getline(rest, delim) ==
    LET at == FindChar(rest, delim)
    IN  IF rest = <<>> THEN [ok |-> FALSE, field |-> <<>>, rest |-> <<>>]
        ELSE IF at = 0 THEN [ok |-> TRUE, field |-> rest, rest |-> <<>>]
        ELSE [ok |-> TRUE, field |-> SubUpTo(rest, at - 1),
              rest |-> SubFrom(rest, at + 1)]

RECURSIVE Fields(_, _)
\* n successive getline(iss, x, ','): ok iff all succeed.
FieldsAfter(g, more) ==
    IF ~g.ok THEN [ok |-> FALSE, fields |-> <<>>, rest |-> <<>>]
    ELSE [ok |-> more.ok, fields |-> <<g.field>> \o more.fields,
          rest |-> more.rest]

Fields(rest, n) ==
    IF n = 0 THEN [ok |-> TRUE, fields |-> <<>>, rest |-> rest]
    ELSE IF rest = <<>> THEN [ok |-> FALSE, fields |-> <<>>, rest |-> <<>>]
    ELSE FieldsAfter(getline(rest, ","), Fields(getline(rest, ",").rest, n - 1))

\* The CSV split of one line: six comma-terminated fields, then a last
\* getline for what is left, which must not be empty.
ParseFields(f) ==
    IF f.ok /\ f.rest # <<>>
    THEN [ok |-> TRUE, fields |-> f.fields, scores_str |-> f.rest]
    ELSE [ok |-> FALSE, fields |-> <<>>, scores_str |-> <<>>]

ParseLine(line) == ParseFields(Fields(line, 6))

RECURSIVE ParseScores(_, _, _)
\* student.set_score(subject, score) inside the inner try: a rejected score
\* is logged and skipped.
StoreScore(student, rest, warns, set) ==
    IF set.threw # "ok"
    THEN ParseScores(student, rest,
                     Append(warns, <<"warn", "load_skip_score">>))
    ELSE ParseScores(set.obj, rest, warns)

\* std::stof(score_str) inside the inner try: std::invalid_argument is
\* caught there, std::out_of_range is caught nowhere in load_from_file.
ParseScore(student, rest, warns, subject, score) ==
    IF score.threw = "out_of_range"
    THEN [threw |-> "out_of_range", obj |-> student, log |-> warns]
    ELSE IF score.threw = "invalid_argument"
    THEN ParseScores(student, rest,
                     Append(warns, <<"warn", "load_skip_score">>))
    ELSE StoreScore(student, rest, warns,
                    set_score(student, subject, score.val))

\* One ';'-separated entry: split at its first ':', skipped without one.
ParseEntry(student, rest, warns, subject_score, colon_pos) ==
    IF colon_pos = 0 THEN ParseScores(student, rest, warns)
    ELSE ParseScore(student, rest, warns,
                    SubUpTo(subject_score, colon_pos - 1),
                    stof(SubFrom(subject_score, colon_pos + 1)))

\* The inner loop over the ';'-separated entries of scores_str.  threw is
\* "ok", or "out_of_range" when std::stof throws it; log holds the warnings
\* written on the way.
ParseScores(student, rest, warns) ==
    IF rest = <<>> THEN [threw |-> "ok", obj |-> student, log |-> warns]
    ELSE ParseEntry(student, getline(rest, ";").rest, warns,
                    getline(rest, ";").field,
                    FindChar(getline(rest, ";").field, ":"))

\* The end of the loop body: push_back when is_valid(), else count an error.
LoadScored(acc, sc) ==
    IF sc.threw # "ok"
    THEN [acc EXCEPT !.log = @ \o sc.log, !.threw = sc.threw]
    ELSE IF is_valid(sc.obj)
    THEN [acc EXCEPT !.students = Append(@, sc.obj),
                     !.count = @ + 1,
                     !.log = @ \o sc.log]
    ELSE [acc EXCEPT !.error_count = @ + 1,
                     !.log = @ \o sc.log
                               \o <<<<"warn", "load_skip_student">>>>]

\* The outer try: the constructor's std::invalid_argument is caught and
\* counted; else the scores are parsed unless the field is the marker.
LoadStudent(acc, scores_str, c) ==
    IF c.threw # "ok"
    THEN [acc EXCEPT !.error_count = @ + 1,
                     !.log = Append(@, <<"warn", "load_invalid">>)]
    ELSE LoadScored(acc,
                    IF scores_str # NoScoresMark /\ ~empty(scores_str)
                    THEN ParseScores(c.obj, scores_str, <<>>)
                    ELSE [threw |-> "ok", obj |-> c.obj, log |-> <<>>])

LoadParsed(acc, p) ==
    IF ~p.ok
    THEN [acc EXCEPT !.error_count = @ + 1,
                     !.log = Append(@, <<"warn", "load_bad_line">>)]
    ELSE LoadStudent(acc, p.scores_str,
                     Student(p.fields[1], p.fields[2], p.fields[3],
                             p.fields[4], p.fields[5], p.fields[6]))

\* The body of the while loop for one line, on the running state acc =
\* [students, count, error_count, log, threw].
LoadLine(acc, line) ==
    IF empty(line) THEN acc ELSE LoadParsed(acc, ParseLine(line))

RECURSIVE LoadLoop(_, _, _)
\* while (std::getline(file, line)) from line i on; an exception ends it.
LoadLoop(lines, i, acc) ==
    IF i > Len(lines) \/ acc.threw # "ok" THEN acc
    ELSE LoadLoop(lines, i + 1, LoadLine(acc, lines[i]))

\* After the loop: the closing log line, unless an exception is on its way.
LoadEnd(end) ==
    IF end.threw # "ok" THEN end
    ELSE [end EXCEPT !.log =
            Append(@, IF end.error_count > 0
                      THEN <<"warn", "load_done_with_errors">>
                      ELSE <<"info", "load_done">>)]

\* The first line is taken for the header when it holds HeaderToken.
IsHeader(lines) == lines # <<>> /\ Contains(lines[1], HeaderToken)

\* load_from_file once the file is open: students_.clear(), the header
\* test on the first line, the loop and the closing log line.
LoadFile(lines) ==
    LoadEnd(LoadLoop(lines, IF IsHeader(lines) THEN 2 ELSE 1,
                     [students |-> <<>>, count |-> 0, error_count |-> 0,
                      log |-> IF IsHeader(lines)
                              THEN <<<<"info", "load_header_skipped">>>>
                              ELSE <<>>,
                      threw |-> "ok"]))

----------------------------------------------------------------------------
(* StudentManagementSystem: the roster students_ and its operations        *)

\* The most records an add may grow the roster to.
MaxStudents == 2

\* std::find_if over students_ by id: the first position, 0 for end().
FindById(roster, student_id) ==
    IF \E i \in 1..Len(roster) : roster[i].id = student_id
    THEN CHOOSE i \in 1..Len(roster) :
           /\ roster[i].id = student_id
           /\ \A j \in 1..(i - 1) : roster[j].id # student_id
    ELSE 0

\* list::erase(it): the roster without position i.
Erase(roster, i) == SubSeq(roster, 1, i - 1) \o SubSeq(roster, i + 1, Len(roster))

\* list::remove_if over the id: every record with that id goes.  The
\* predicate reads the id through a pointer to the chosen record while
\* remove_if runs; remove_if keeps the nodes it unlinks alive until it is
\* done, so the id compared is that of the chosen record throughout.
RemoveId(roster, student_id) ==
    SelectSeq(roster, LAMBDA s : s.id # student_id)

\* find_student_by_id: the position of the record pointed to, 0 for nullptr.
find_student_by_id(roster, student_id) == FindById(roster, student_id)

\* find_students_by_name: name.find(name) != npos, in storage order (the
\* positions of the records pointed to).
find_students_by_name(roster, name) ==
    SelectSeq([i \in 1..Len(roster) |-> i],
              LAMBDA i : Contains(roster[i].name, name))

\* find_students_by_name_exact: equal names, in storage order.
find_students_by_name_exact(roster, name) ==
    SelectSeq([i \in 1..Len(roster) |-> i], LAMBDA i : roster[i].name = name)

RECURSIVE InsertByIdBefore(_, _)
\* x put before the first record whose id is not less: what a sort that
\* is not stable can do with records of one id.
InsertByIdBefore(sorted, x) ==
    IF sorted = <<>> THEN <<x>>
    ELSE IF ~StrLess(Head(sorted).id, x.id) THEN <<x>> \o sorted
    ELSE <<Head(sorted)>> \o InsertByIdBefore(Tail(sorted), x)

RECURSIVE InsertById(_, _)
\* x put behind every record whose id is not greater: what a stable sort
\* does with x when the records before it are sorted.
InsertById(sorted, x) ==
    IF sorted = <<>> THEN <<x>>
    ELSE IF StrLess(x.id, Head(sorted).id) THEN <<x>> \o sorted
    ELSE <<Head(sorted)>> \o InsertById(Tail(sorted), x)

RECURSIVE SortById(_)
\* std::list::sort by a.get_id() < b.get_id(): a stable sort.
SortById(roster) ==
    IF roster = <<>> THEN <<>>
    ELSE InsertById(SortById(SubUpTo(roster, Len(roster) - 1)),
                    roster[Len(roster)])

\* What a call leaves in stat when it is not a load.
NoStat == [count |-> 0, error_count |-> 0]

\* The working file as absent.
NoFile == [exists |-> FALSE, lines |-> <<>>]

Init ==
    /\ students = <<>>
    /\ before = <<>>
    /\ disk = NoFile
    /\ saved = <<>>
    /\ record = DefaultStudent
    /\ record_before = DefaultStudent
    /\ call = [op |-> "StudentManagementSystem"]
    /\ ret = "void"
    /\ log = <<<<"info", "init">>>>
    /\ stat = NoStat

\* add_student without the search for the id.
add_student_unchecked(student) ==
    /\ is_valid(student) => Len(students) < MaxStudents
    /\ call' = [op |-> "add_student", student |-> student]
    /\ before' = students
    /\ IF ~is_valid(student)
       THEN /\ log' = <<<<"warn", "add_incomplete">>>>
            /\ ret' = "false"
            /\ students' = students
       ELSE /\ students' = Append(students, student)
            /\ log' = <<<<"info", "add_ok">>>>
            /\ ret' = "true"
    /\ stat' = NoStat
    /\ UNCHANGED <<disk, saved, record, record_before>>

\* add_student with push_front for push_back.
add_student_front(student) ==
    /\ (is_valid(student) /\ FindById(students, student.id) = 0)
          => Len(students) < MaxStudents
    /\ call' = [op |-> "add_student", student |-> student]
    /\ before' = students
    /\ IF ~is_valid(student) \/ FindById(students, student.id) # 0
       THEN /\ log' = <<<<"warn", "add_rejected">>>>
            /\ ret' = "false"
            /\ students' = students
       ELSE /\ students' = <<student>> \o students
            /\ log' = <<<<"info", "add_ok">>>>
            /\ ret' = "true"
    /\ stat' = NoStat
    /\ UNCHANGED <<disk, saved, record, record_before>>

add_student(student) ==
    /\ (is_valid(student) /\ FindById(students, student.id) = 0)
          => Len(students) < MaxStudents
    /\ call' = [op |-> "add_student", student |-> student]
    /\ before' = students
    /\ IF ~is_valid(student)
       THEN /\ log' = <<<<"warn", "add_incomplete">>>>
            /\ ret' = "false"
            /\ students' = students
       ELSE IF FindById(students, student.id) # 0
       THEN /\ log' = <<<<"warn", "add_duplicate">>>>
            /\ ret' = "false"
            /\ students' = students
       ELSE /\ students' = Append(students, student)
            /\ log' = <<<<"info", "add_ok">>>>
            /\ ret' = "true"
    /\ stat' = NoStat
    /\ UNCHANGED <<disk, saved, record, record_before>>

\* delete_student with remove_if over the id for erase(it).
delete_student_every(student_id) ==
    /\ call' = [op |-> "delete_student", student_id |-> student_id]
    /\ before' = students
    /\ IF FindById(students, student_id) = 0
       THEN /\ log' = <<<<"warn", "delete_missing">>>>
            /\ ret' = "false"
            /\ students' = students
       ELSE /\ students' = RemoveId(students, student_id)
            /\ log' = <<<<"info", "delete_ok">>>>
            /\ ret' = "true"
    /\ stat' = NoStat
    /\ UNCHANGED <<disk, saved, record, record_before>>

delete_student(student_id) ==
    LET it == FindById(students, student_id)
    IN  /\ call' = [op |-> "delete_student", student_id |-> student_id]
        /\ before' = students
        /\ IF it = 0
           THEN /\ log' = <<<<"warn", "delete_missing">>>>
                /\ ret' = "false"
                /\ students' = students
           ELSE /\ students' = Erase(students, it)
                /\ log' = <<<<"info", "delete_ok">>>>
                /\ ret' = "true"
        /\ stat' = NoStat
        /\ UNCHANGED <<disk, saved, record, record_before>>

\* update_student copying the six fields and keeping the old scores.
update_student_merge(student_id, new_student) ==
    LET it == FindById(students, student_id)
    IN  /\ call' = [op |-> "update_student", student_id |-> student_id,
                    student |-> new_student]
        /\ before' = students
        /\ IF it = 0 \/ ~is_valid(new_student)
           THEN /\ log' = <<<<"warn", "update_rejected">>>>
                /\ ret' = "false"
                /\ students' = students
           ELSE /\ students' =
                      [students EXCEPT
                         ![it] = [new_student EXCEPT
                                    !.scores = students[it].scores]]
                /\ log' = <<<<"info", "update_ok">>>>
                /\ ret' = "true"
        /\ stat' = NoStat
        /\ UNCHANGED <<disk, saved, record, record_before>>

update_student(student_id, new_student) ==
    LET it == FindById(students, student_id)
    IN  /\ call' = [op |-> "update_student", student_id |-> student_id,
                    student |-> new_student]
        /\ before' = students
        /\ IF it = 0
           THEN /\ log' = <<<<"warn", "update_missing">>>>
                /\ ret' = "false"
                /\ students' = students
           ELSE IF ~is_valid(new_student)
           THEN /\ log' = <<<<"warn", "update_incomplete">>>>
                /\ ret' = "false"
                /\ students' = students
           ELSE /\ students' = [students EXCEPT ![it] = new_student]
                /\ log' = <<<<"info", "update_ok">>>>
                /\ ret' = "true"
        /\ stat' = NoStat
        /\ UNCHANGED <<disk, saved, record, record_before>>

clear_all_students ==
    /\ call' = [op |-> "clear_all_students"]
    /\ before' = students
    /\ students' = <<>>
    /\ log' = <<<<"info", "clear">>>>
    /\ ret' = "void"
    /\ stat' = NoStat
    /\ UNCHANGED <<disk, saved, record, record_before>>

sort_students_by_id ==
    /\ call' = [op |-> "sort_students_by_id"]
    /\ before' = students
    /\ students' = SortById(students)
    /\ log' = <<<<"info", "sort">>>>
    /\ ret' = "void"
    /\ stat' = NoStat
    /\ UNCHANGED <<disk, saved, record, record_before>>

set_student_score(student_id, subject, score) ==
    LET it == FindById(students, student_id)
        set == set_score(students[it], subject, score)
    IN  /\ call' = [op |-> "set_student_score", student_id |-> student_id,
                    subject |-> subject, score |-> score]
        /\ before' = students
        /\ IF it = 0
           THEN /\ log' = <<<<"warn", "score_missing">>>>
                /\ ret' = "false"
                /\ students' = students
           ELSE IF set.threw = "ok"
           THEN /\ students' = [students EXCEPT ![it] = set.obj]
                /\ log' = <<<<"info", "score_ok">>>>
                /\ ret' = "true"
           ELSE /\ log' = <<<<"warn", "score_rejected">>>>
                /\ ret' = "false"
                /\ students' = students
        /\ stat' = NoStat
        /\ UNCHANGED <<disk, saved, record, record_before>>

\* choice is the number read from std::cin when several records match.
delete_student_by_name(name, choice) ==
    LET matching_students == find_students_by_name_exact(students, name)
    IN  /\ call' = [op |-> "delete_student_by_name", name |-> name,
                    choice |-> IF Len(matching_students) > 1
                               THEN choice ELSE 0]
        /\ before' = students
        /\ IF matching_students = <<>>
           THEN /\ log' = <<<<"warn", "delete_name_missing">>>>
                /\ ret' = "false"
                /\ students' = students
           ELSE IF Len(matching_students) = 1
           THEN /\ students' =
                      RemoveId(students, students[matching_students[1]].id)
                /\ log' = <<<<"info", "delete_name_ok">>>>
                /\ ret' = "true"
           ELSE IF choice < 1 \/ choice > Len(matching_students)
           THEN /\ log' = <<<<"warn", "delete_name_bad_choice">>>>
                /\ ret' = "false"
                /\ students' = students
           ELSE /\ students' =
                      RemoveId(students,
                               students[matching_students[choice]].id)
                /\ log' = <<<<"info", "delete_name_chosen">>>>
                /\ ret' = "true"
        /\ stat' = NoStat
        /\ UNCHANGED <<disk, saved, record, record_before>>

----------------------------------------------------------------------------
(* Files                                                                   *)

\* The file main() saves to and loads from; the only file a save of the
\* model can open.  Every other file name is a file that exists outside
\* the program (InputFiles) or does not exist.
WorkFile == "students.csv"

RECURSIVE Csv(_)
\* The strings of fields joined by commas: one line of an input file.
Csv(fields) ==
    IF Len(fields) = 1 THEN fields[1]
    ELSE Head(fields) \o Comma \o Csv(Tail(fields))

Id1 == <<"1", "0", "0", "0", "0", "0", "0", "0", "0", "1">>
Id2 == <<"1", "0", "0", "0", "0", "0", "0", "0", "0", "2">>
Id3 == <<"0", "9", "0", "0", "0", "0", "0", "0", "0", "3">>
IdNone == <<"1", "0", "0", "0", "0", "0", "0", "0", "0", "9">>
NameAb == <<"a", "b">>
NameCd == <<"c", "d">>
Male == <<"U7537">>
Female == <<"U5973">>
ClassCS == <<"C", "S", "0", "1">>
Phone1 == <<"1", "3", "8", "0", "0", "0", "0", "0", "0", "0", "0">>
Email1 == <<"a", "@", "b", ".", "c", "n">>
Math == <<"M", "a", "t", "h">>
En == <<"E", "n">>

LineA == Csv(<<Id1, NameAb, Male, ClassCS, <<>>, <<>>,
               Math \o <<":", "9", "5">>>>)
LineB == Csv(<<Id2, NameCd, Female, ClassCS, Phone1, Email1, NoScoresMark>>)
LineC == Csv(<<Id3, NameAb, Female, ClassCS, <<>>, <<>>, NoScoresMark>>)

\* A line with too few fields, and a line whose id has nine digits.
LineShort == Csv(<<Id2, NameCd, Female, ClassCS>>)
LineBadId == Csv(<<SubUpTo(Id2, 9), NameCd, Female, ClassCS, <<>>, <<>>,
                   NoScoresMark>>)

\* Score entries that cannot be stored, among two that can:
\* Math:abc;En:101;:5;Ok:7;Math:95
LineBadScores ==
    Csv(<<Id1, NameAb, Male, ClassCS, <<>>, <<>>,
          Math \o <<":", "a", "b", "c", ";">> \o En
          \o <<":", "1", "0", "1", ";", ":", "5", ";", "O", "k", ":", "7",
               ";">> \o Math \o <<":", "9", "5">>>>)

\* A score too large for a float: Math:1e99;En:5
LineHugeScore ==
    Csv(<<Id2, NameCd, Female, ClassCS, <<>>, <<>>,
          Math \o <<":", "1", "e", "9", "9", ";">> \o En \o <<":", "5">>>>)

\* A score that is no number of the float grid: Math:nan
LineNanScore ==
    Csv(<<Id2, NameCd, Female, ClassCS, <<>>, <<>>,
          Math \o <<":", "n", "a", "n">>>>)

\* A valid record whose name holds the two characters of HeaderToken.
LineNameToken ==
    Csv(<<Id1, HeaderToken \o <<"x">>, Male, ClassCS, <<>>, <<>>,
          NoScoresMark>>)

\* A second record with the id of LineA.
LineA2 == Csv(<<Id1, NameCd, Female, ClassCS, <<>>, Email1,
                En \o <<":", "6", "0">>>>)

\* The files outside the program a load can be pointed at.
InputFiles ==
    [roster       |-> <<Header, LineA, LineB, LineC>>,
     plain        |-> <<LineA, LineB>>,
     short_line   |-> <<Header, LineA, LineShort, LineC>>,
     bad_id       |-> <<LineA, LineBadId, LineC>>,
     bad_first    |-> <<LineShort, LineA, LineC>>,
     empty        |-> <<>>,
     header_only  |-> <<Header>>,
     garbage      |-> <<LineShort, <<"h", "i">>>>,
     bad_scores   |-> <<Header, LineBadScores, LineB>>,
     huge_score   |-> <<Header, LineA, LineHugeScore, LineC>>,
     nan_score    |-> <<Header, LineNanScore>>,
     dup_ids      |-> <<LineA, LineA2>>,
     name_token   |-> <<LineNameToken, LineB, LineShort>>,
     token_first  |-> <<LineNameToken, LineB>>]

\* The file a name stands for when a load opens it.
FileOf(filename, work) ==
    IF filename = WorkFile THEN work
    ELSE IF filename \in DOMAIN InputFiles
         THEN [exists |-> TRUE, lines |-> InputFiles[filename]]
    ELSE NoFile

save_to_file(filename) ==
    /\ call' = [op |-> "save_to_file", filename |-> filename]
    /\ before' = students
    /\ IF filename # WorkFile
       THEN /\ log' = <<<<"error", "save_open_failed">>>>
            /\ ret' = "false"
            /\ UNCHANGED <<disk, saved>>
       ELSE /\ \E ords \in ScoreOrders(students) :
                 disk' = [exists |-> TRUE, lines |-> FileLines(students, ords)]
            /\ saved' = students
            /\ log' = <<<<"info", "save_ok">>>>
            /\ ret' = "true"
    /\ stat' = NoStat
    /\ UNCHANGED <<students, record, record_before>>

\* save_to_excel_file sorting a copy: the file is sorted, students_ is not.
save_to_excel_file_copy(filename) ==
    /\ call' = [op |-> "save_to_excel_file", filename |-> filename]
    /\ before' = students
    /\ students' = students
    /\ IF filename # WorkFile
       THEN /\ log' = <<<<"error", "save_open_failed">>>>
            /\ ret' = "false"
            /\ UNCHANGED <<disk, saved>>
       ELSE /\ saved' = SortById(students)
            /\ \E ords \in ScoreOrders(SortById(students)) :
                 disk' = [exists |-> TRUE,
                          lines |-> FileLines(SortById(students), ords)]
            /\ log' = <<<<"info", "sort">>, <<"info", "save_excel_ok">>>>
            /\ ret' = "true"
    /\ stat' = NoStat
    /\ UNCHANGED <<record, record_before>>

save_to_excel_file(filename) ==
    /\ call' = [op |-> "save_to_excel_file", filename |-> filename]
    /\ before' = students
    /\ IF filename # WorkFile
       THEN /\ log' = <<<<"error", "save_open_failed">>>>
            /\ ret' = "false"
            /\ UNCHANGED <<disk, saved>>
            /\ students' = students
       ELSE /\ students' = SortById(students)
            /\ saved' = SortById(students)
            /\ \E ords \in ScoreOrders(SortById(students)) :
                 disk' = [exists |-> TRUE,
                          lines |-> FileLines(SortById(students), ords)]
            /\ log' = <<<<"info", "sort">>, <<"info", "save_excel_ok">>>>
            /\ ret' = "true"
    /\ stat' = NoStat
    /\ UNCHANGED <<record, record_before>>

\* load_from_file without students_.clear(): the records read are put
\* behind those the roster holds.
load_from_file_keep(filename) ==
    /\ call' = [op |-> "load_from_file", filename |-> filename]
    /\ before' = students
    /\ IF ~FileOf(filename, disk).exists
       THEN /\ log' = <<<<"error", "load_open_failed">>>>
            /\ ret' = "false"
            /\ students' = students
            /\ stat' = NoStat
       ELSE \E r \in {LoadFile(FileOf(filename, disk).lines)} :
              /\ students' = students \o r.students
              /\ stat' = [count |-> r.count, error_count |-> r.error_count]
              /\ log' = r.log
              /\ ret' = IF r.threw # "ok" THEN r.threw
                        ELSE IF r.count > 0 THEN "true" ELSE "false"
    /\ UNCHANGED <<disk, saved, record, record_before>>

\* load_from_file after the file is open, r being what the pass yields.
LoadOpened(r) ==
    /\ students' = r.students
    /\ stat' = [count |-> r.count, error_count |-> r.error_count]
    /\ log' = r.log
    /\ ret' = IF r.threw # "ok" THEN r.threw
              ELSE IF r.count > 0 THEN "true" ELSE "false"

load_from_file(filename) ==
    /\ call' = [op |-> "load_from_file", filename |-> filename]
    /\ before' = students
    /\ IF ~FileOf(filename, disk).exists
       THEN /\ log' = <<<<"error", "load_open_failed">>>>
            /\ ret' = "false"
            /\ students' = students
            /\ stat' = NoStat
       ELSE LoadOpened(LoadFile(FileOf(filename, disk).lines))
    /\ UNCHANGED <<disk, saved, record, record_before>>

----------------------------------------------------------------------------
(* A Student object of the caller                                          *)

\* A call of a Student member on record that yields r = [threw, obj]: the
\* object afterwards is r.obj, and what the call threw is what the caller
\* sees.  Student writes no log.
OnRecord(r) ==
    /\ record_before' = record
    /\ record' = r.obj
    /\ ret' = IF r.threw = "ok" THEN "void" ELSE r.threw
    /\ before' = students
    /\ log' = <<>>
    /\ stat' = NoStat
    /\ UNCHANGED <<students, disk, saved>>

\* record = Student();
Student_default ==
    /\ call' = [op |-> "Student::Student()"]
    /\ OnRecord([threw |-> "ok", obj |-> DefaultStudent])

\* record = Student(a[1], ..., a[6]); when the constructor throws, record
\* keeps the object it held.
Student_construct(a) ==
    /\ call' = [op |-> "Student::Student", args |-> a]
    /\ OnRecord([threw |-> Student(a[1], a[2], a[3], a[4], a[5], a[6]).threw,
                 obj |-> IF Student(a[1], a[2], a[3], a[4], a[5], a[6]).threw
                              = "ok"
                         THEN Student(a[1], a[2], a[3], a[4], a[5], a[6]).obj
                         ELSE record])

Student_set_id(id) ==
    /\ call' = [op |-> "Student::set_id", value |-> id]
    /\ OnRecord(set_id(record, id))

Student_set_name(name) ==
    /\ call' = [op |-> "Student::set_name", value |-> name]
    /\ OnRecord(set_name(record, name))

Student_set_gender(gender) ==
    /\ call' = [op |-> "Student::set_gender", value |-> gender]
    /\ OnRecord(set_gender(record, gender))

Student_set_class_id(class_id) ==
    /\ call' = [op |-> "Student::set_class_id", value |-> class_id]
    /\ OnRecord(set_class_id(record, class_id))

Student_set_phone(phone) ==
    /\ call' = [op |-> "Student::set_phone", value |-> phone]
    /\ OnRecord(set_phone(record, phone))

Student_set_email(email) ==
    /\ call' = [op |-> "Student::set_email", value |-> email]
    /\ OnRecord(set_email(record, email))

Student_set_score(subject, score) ==
    /\ call' = [op |-> "Student::set_score", subject |-> subject,
                score |-> score]
    /\ OnRecord(set_score(record, subject, score))

\* *find_student_by_id(student_id): the record of the roster pointed to.
\* For nullptr it is an object that no one looks at.
Pointee(student_id) ==
    IF find_student_by_id(students, student_id) = 0 THEN DefaultStudent
    ELSE students[find_student_by_id(students, student_id)]

\* A setter called on find_student_by_id(student_id) by a caller that tests
\* the pointer first, r = [threw, obj] being what the setter yields on the
\* record pointed to: the record of the roster becomes r.obj, and nothing
\* is called on nullptr.
Handle(student_id, r) ==
    /\ before' = students
    /\ IF find_student_by_id(students, student_id) = 0
       THEN /\ ret' = "nullptr"
            /\ students' = students
       ELSE /\ ret' = IF r.threw = "ok" THEN "void" ELSE r.threw
            /\ students' =
                 [students EXCEPT
                    ![find_student_by_id(students, student_id)] = r.obj]
    /\ log' = <<>>
    /\ stat' = NoStat
    /\ UNCHANGED <<disk, saved, record, record_before>>

Handle_set_id(student_id, id) ==
    /\ call' = [op |-> "find_student_by_id->set_id",
                student_id |-> student_id, value |-> id]
    /\ Handle(student_id, set_id(Pointee(student_id), id))

Handle_set_name(student_id, name) ==
    /\ call' = [op |-> "find_student_by_id->set_name",
                student_id |-> student_id, value |-> name]
    /\ Handle(student_id, set_name(Pointee(student_id), name))

Handle_set_gender(student_id, gender) ==
    /\ call' = [op |-> "find_student_by_id->set_gender",
                student_id |-> student_id, value |-> gender]
    /\ Handle(student_id, set_gender(Pointee(student_id), gender))

Handle_set_class_id(student_id, class_id) ==
    /\ call' = [op |-> "find_student_by_id->set_class_id",
                student_id |-> student_id, value |-> class_id]
    /\ Handle(student_id, set_class_id(Pointee(student_id), class_id))

Handle_set_phone(student_id, phone) ==
    /\ call' = [op |-> "find_student_by_id->set_phone",
                student_id |-> student_id, value |-> phone]
    /\ Handle(student_id, set_phone(Pointee(student_id), phone))

Handle_set_email(student_id, email) ==
    /\ call' = [op |-> "find_student_by_id->set_email",
                student_id |-> student_id, value |-> email]
    /\ Handle(student_id, set_email(Pointee(student_id), email))

----------------------------------------------------------------------------
(* The callers' inputs                                                     *)

StudentA == Student(Id1, NameAb, Male, ClassCS, <<>>, <<>>).obj
StudentB == Student(Id2, NameCd, Female, ClassCS, Phone1, Email1).obj
StudentC == Student(Id3, NameAb, Female, ClassCS, <<>>, <<>>).obj

\* The id of StudentA with other fields and a score of its own.
StudentA2 ==
    set_score(Student(Id1, NameCd, Female, ClassCS, <<>>, Email1).obj,
              En, 60 * Unit).obj

\* Student s; s.set_id(Id2): a record that is not is_valid().
StudentPartial == [DefaultStudent EXCEPT !.id = Id2]

StudentPool ==
    {StudentA, StudentB, StudentC, StudentA2, DefaultStudent, StudentPartial}

IdPool == {Id1, Id2, Id3, IdNone}

NamePool == {NameAb, NameCd, <<"a">>}

SubjectPool == {Math, <<>>}

\* 95, 101 and NaN.
ScorePool == {95 * Unit, 101 * Unit, NaN}

\* 95 and 85.12346, a value of seven significant digits.
FineScorePool == {95 * Unit, 8512346}

ChoicePool == 0..3

SaveNames == {WorkFile, "no_such_dir/students.csv"}

LoadNames == {WorkFile, "missing.csv"} \cup DOMAIN InputFiles

\* The roster and every operation on it, the files of InputFiles as the
\* files a load can read.
Next ==
    \/ \E s \in StudentPool : add_student(s)
    \/ \E id \in IdPool : delete_student(id)
    \/ \E id \in {Id1, Id2, IdNone},
          s \in {StudentA2, StudentB, DefaultStudent} : update_student(id, s)
    \/ clear_all_students
    \/ sort_students_by_id
    \/ \E id \in {Id1, IdNone}, subject \in SubjectPool, score \in ScorePool :
         set_student_score(id, subject, score)
    \/ \E name \in NamePool, choice \in ChoicePool :
         delete_student_by_name(name, choice)
    \/ \E f \in {"roster", "dup_ids", "missing.csv"} : load_from_file(f)

Spec == Init /\ [][Next]_vars

\* The working file: a small roster saved, cleared and loaded again, and
\* every input file loaded.
NextFile ==
    \/ \E s \in {StudentA, StudentB} : add_student(s)
    \/ \E score \in FineScorePool : set_student_score(Id1, Math, score)
    \/ clear_all_students
    \/ \E f \in SaveNames : save_to_file(f)
    \/ \E f \in SaveNames : save_to_excel_file(f)
    \/ \E f \in LoadNames : load_from_file(f)

SpecFile == Init /\ [][NextFile]_vars

----------------------------------------------------------------------------
(* The roster's operations                                                 *)

\* The positions of roster that hold a record with the id.
PositionsOf(roster, student_id) ==
    {i \in 1..Len(roster) : roster[i].id = student_id}

\* The least member of a non-empty set of positions.
FirstOf(S) == CHOOSE i \in S : \A j \in S : i <= j

\* roster without its position k, the others in their order.
Without(roster, k) ==
    [i \in 1..(Len(roster) - 1) |-> IF i < k THEN roster[i] ELSE roster[i + 1]]

\* C1: in every reachable state no two records of the roster have the same
\* id.
C1_IdsUnique ==
    \A i, j \in 1..Len(students) :
        students[i].id = students[j].id => i = j

\* C2: an add of a record that is not is_valid(), or whose id some record
\* of the roster has, returns false and leaves the roster as it was.
C2_AddRejected ==
    (/\ call.op = "add_student"
     /\ \/ ~is_valid(call.student)
        \/ PositionsOf(before, call.student.id) # {})
    => (ret = "false" /\ students = before)

\* C2: a second add of an id was rejected with one record in the roster.
C2_Witness ==
    /\ call.op = "add_student"
    /\ is_valid(call.student)
    /\ PositionsOf(before, call.student.id) # {}
    /\ ret = "false"
    /\ Len(students) = 1

\* C3: an add of a valid record whose id no record has returns true and
\* the roster is the roster before with the record appended.
C3_AddAppends ==
    (/\ call.op = "add_student"
     /\ is_valid(call.student)
     /\ PositionsOf(before, call.student.id) = {})
    => (/\ ret = "true"
        /\ Len(students) = Len(before) + 1
        /\ students[Len(students)] = call.student
        /\ \A i \in 1..Len(before) : students[i] = before[i])

\* C3: a record was appended behind a record with a greater id.
C3_Witness ==
    /\ call.op = "add_student"
    /\ ret = "true"
    /\ Len(students) = 2
    /\ students[2] = call.student
    /\ StrLess(students[2].id, students[1].id)

\* C4: delete_student returns false and changes nothing when no record has
\* the id; else it returns true and the roster is the roster before without
\* the first record of that id.
C4_DeleteFrame ==
    call.op = "delete_student"
    => IF PositionsOf(before, call.student_id) = {}
       THEN ret = "false" /\ students = before
       ELSE /\ ret = "true"
            /\ Len(students) = Len(before) - 1
            /\ students =
                 Without(before, FirstOf(PositionsOf(before, call.student_id)))

\* C4: the middle one of three records was deleted.
C4_Witness ==
    /\ call.op = "delete_student"
    /\ ret = "true"
    /\ Len(before) = 3
    /\ before[2].id = call.student_id
    /\ students = <<before[1], before[3]>>

\* C5: update_student returns false and changes nothing when no record has
\* the id or the new record is not is_valid(); else it returns true and the
\* first record of that id is the new record, scores included, every other
\* position as before.
C5_UpdateReplaces ==
    call.op = "update_student"
    => IF PositionsOf(before, call.student_id) = {} \/ ~is_valid(call.student)
       THEN ret = "false" /\ students = before
       ELSE /\ ret = "true"
            /\ Len(students) = Len(before)
            /\ \A i \in 1..Len(before) :
                 students[i] =
                   IF i = FirstOf(PositionsOf(before, call.student_id))
                   THEN call.student ELSE before[i]

\* C5: a record with a score was replaced by a record without that score,
\* another record standing behind it.
C5_Witness ==
    /\ call.op = "update_student"
    /\ ret = "true"
    /\ Len(before) >= 2
    /\ before[1].id = call.student_id
    /\ Math \in DOMAIN before[1].scores
    /\ Math \notin DOMAIN students[1].scores
    /\ students[1] = call.student

----------------------------------------------------------------------------
(* The text file                                                           *)

\* The file the last call named, as a load finds it.
Opened == FileOf(call.filename, disk).exists
FileText == FileOf(call.filename, disk).lines

\* The text a line of the record begins with: its six fields, each with
\* its comma.
FieldsText(rec) ==
    rec.id \o Comma \o rec.name \o Comma \o rec.gender \o Comma
    \o rec.class_id \o Comma \o rec.phone \o Comma \o rec.email \o Comma

\* rec is what line says: line begins with the six fields of rec and
\* names every subject rec has a score in.
FromLine(rec, line) ==
    /\ Len(line) >= Len(FieldsText(rec))
    /\ SubUpTo(line, Len(FieldsText(rec))) = FieldsText(rec)
    /\ \A subject \in DOMAIN rec.scores :
         Contains(SubFrom(line, Len(FieldsText(rec)) + 1), subject \o <<":">>)

\* A line that splits into its seven fields, the first six passing the
\* validators of the constructor.
WellFormed(line) ==
    /\ ParseLine(line).ok
    /\ Student(ParseLine(line).fields[1], ParseLine(line).fields[2],
               ParseLine(line).fields[3], ParseLine(line).fields[4],
               ParseLine(line).fields[5], ParseLine(line).fields[6]).threw
         = "ok"

\* The lines of a file behind the header line, if it begins with one.
DataLines(lines) ==
    IF lines # <<>> /\ lines[1] = Header THEN Tail(lines) ELSE lines

\* The lines load reads as data: those behind the first when it took the
\* first for the header.
ReadLines(lines) == IF IsHeader(lines) THEN Tail(lines) ELSE lines

GoodLines(lines) == SelectSeq(lines, LAMBDA l : WellFormed(l))

\* roster holds one record for each line, in order.
OnePerLine(roster, lines) ==
    /\ Len(roster) = Len(lines)
    /\ \A i \in 1..Len(lines) : FromLine(roster[i], lines[i])

\* C6: a load of the working file into an empty roster yields the roster
\* the save wrote: as many records, and under each saved record's id a
\* record equal to it in every field and in its scores.
C6_RoundTrip ==
    (/\ call.op = "load_from_file"
     /\ call.filename = WorkFile
     /\ Opened
     /\ before = <<>>)
    => (/\ Len(students) = Len(saved)
        /\ \A i \in 1..Len(saved) :
             /\ PositionsOf(students, saved[i].id) # {}
             /\ students[FirstOf(PositionsOf(students, saved[i].id))]
                  = saved[i])

\* C7 as claimed: after every load, also of a file that cannot be opened,
\* every record of the roster is one parsed from a line of that file.
C7_LoadReplacesAlways ==
    call.op = "load_from_file"
    => \A i \in 1..Len(students) :
         /\ Opened
         /\ \E k \in 1..Len(FileText) : FromLine(students[i], FileText[k])

\* C7 amended: a load of a file that cannot be opened returns false and
\* leaves the roster as it was; a load of a file that opens, however it
\* ends, leaves a roster of records parsed from lines of that file, in the
\* order of the lines and at most one for each line.
C7_LoadReplaces ==
    call.op = "load_from_file"
    => IF ~Opened
       THEN ret = "false" /\ students = before
       ELSE /\ Len(students) <= Len(FileText)
            /\ \A i \in 1..Len(students) :
                 \E k \in i..Len(FileText) : FromLine(students[i], FileText[k])

\* C7: a load replaced a roster of two records by records of the file,
\* none of which the roster held.
C7_Witness ==
    /\ call.op = "load_from_file"
    /\ Opened
    /\ Len(before) = 2
    /\ students # <<>>
    /\ \A i \in 1..Len(students), j \in 1..Len(before) :
         students[i] # before[j]

\* C8: load returns true when the file opened and at least one record was
\* loaded from it, and false otherwise.
C8_TrueIffLoaded ==
    call.op = "load_from_file"
    => IF Opened /\ students # <<>> THEN ret = "true" ELSE ret = "false"

\* C9: after a load of a file whose data lines are all well formed but
\* one, the roster holds one record for each well-formed line, in order,
\* the count is their number, the error counter is 1, and load returned
\* true if there is such a line.
C9_OneBadLine ==
    (/\ call.op = "load_from_file"
     /\ Opened
     /\ Len(DataLines(FileText)) = Len(GoodLines(DataLines(FileText))) + 1)
    => (/\ OnePerLine(students, GoodLines(DataLines(FileText)))
        /\ stat.count = Len(GoodLines(DataLines(FileText)))
        /\ stat.error_count = 1
        /\ (GoodLines(DataLines(FileText)) # <<>> => ret = "true"))

\* C10: a load of a file that opens returns true or false, whatever the
\* score entries of its lines are, and the roster holds one record for
\* each well-formed line it read, in order.
C10_ScoreNonFatal ==
    (call.op = "load_from_file" /\ Opened)
    => (/\ ret \in {"true", "false"}
        /\ OnePerLine(students, GoodLines(ReadLines(FileText))))

\* roster is in non-decreasing id order under std::string's operator<.
NonDecreasing(roster) ==
    \A i, j \in 1..Len(roster) : i < j => ~StrLess(roster[j].id, roster[i].id)

\* C11: after a save_to_excel_file that returned true the roster is in
\* non-decreasing id order and the data lines of the file are the lines of
\* its records in that order.
C11_SortedAfterSave ==
    (call.op = "save_to_excel_file" /\ ret = "true")
    => (/\ NonDecreasing(students)
        /\ disk.exists
        /\ disk.lines # <<>>
        /\ OnePerLine(students, Tail(disk.lines)))

\* C11: the save put a roster in order that was not.
C11_Witness ==
    /\ call.op = "save_to_excel_file"
    /\ ret = "true"
    /\ Len(before) = 3
    /\ ~NonDecreasing(before)
    /\ students # before

\* The k-th least member of a set of positions.
KthOf(S, k) == CHOOSE i \in S : Cardinality({j \in S : j <= i}) = k

\* The positions of roster that hold a record with exactly the name.
NamedExactly(roster, name) == {i \in 1..Len(roster) : roster[i].name = name}

\* C12: delete_student_by_name returns false and changes nothing when no
\* record has exactly the name; with one such record it returns true and
\* the roster is the roster before without that record; with several, a
\* choice k within 1..m returns true and removes the k-th of them in
\* storage order and nothing else, any other choice returns false and
\* changes nothing.
C12_DeleteByName ==
    call.op = "delete_student_by_name"
    => IF NamedExactly(before, call.name) = {}
       THEN ret = "false" /\ students = before
       ELSE IF Cardinality(NamedExactly(before, call.name)) = 1
       THEN /\ ret = "true"
            /\ students =
                 Without(before, FirstOf(NamedExactly(before, call.name)))
       ELSE IF call.choice \in 1..Cardinality(NamedExactly(before, call.name))
       THEN /\ ret = "true"
            /\ students =
                 Without(before,
                         KthOf(NamedExactly(before, call.name), call.choice))
       ELSE ret = "false" /\ students = before

\* C21: a delete_student_by_name that returns true removes exactly one
\* record: the roster is one record shorter, and it is the roster before
\* without one of the records of that name, every other record being
\* there as before.
C21_DeleteByNameOne ==
    (call.op = "delete_student_by_name" /\ ret = "true")
    => /\ Len(students) = Len(before) - 1
       /\ \E i \in NamedExactly(before, call.name) :
            students = Without(before, i)

\* C16: set_student_score returns false and changes nothing when no
\* record has the id, the subject is empty or the score is not within
\* [0, 100]; else it returns true and the first record of that id has the
\* score under the subject, its fields and other scores, every other
\* record and the order being as before.
C16_SetScoreFrame ==
    call.op = "set_student_score"
    => IF \/ PositionsOf(before, call.student_id) = {}
          \/ call.subject = <<>>
          \/ ~(call.score >= 0 /\ call.score <= 100 * Unit)
       THEN ret = "false" /\ students = before
       ELSE /\ ret = "true"
            /\ Len(students) = Len(before)
            /\ \A i \in 1..Len(before) :
                 students[i] =
                   IF i = FirstOf(PositionsOf(before, call.student_id))
                   THEN [before[i] EXCEPT !.scores =
                           [k \in DOMAIN before[i].scores \cup {call.subject}
                              |-> IF k = call.subject THEN call.score
                                  ELSE before[i].scores[k]]]
                   ELSE before[i]

\* The levels of the log lines the last call wrote.
Levels == {log[i][1] : i \in 1..Len(log)}

\* C17: a call of add, delete, delete by name, update, set score or a save
\* that returned true wrote an info line; a call of the roster that
\* returned false wrote a warn or an error line; no call wrote a fatal
\* line.
C17_LogFollowsOutcome ==
    /\ (/\ call.op \in {"add_student", "delete_student",
                        "delete_student_by_name", "update_student",
                        "set_student_score", "save_to_file",
                        "save_to_excel_file"}
        /\ ret = "true")
       => "info" \in Levels
    /\ (/\ call.op \in {"add_student", "delete_student",
                        "delete_student_by_name", "update_student",
                        "set_student_score", "save_to_file",
                        "save_to_excel_file", "load_from_file"}
        /\ ret = "false")
       => Levels \cap {"warn", "error"} # {}
    /\ "fatal" \notin Levels

\* C19: after a load of a file that does not begin with the header line
\* and whose lines are all well formed, the roster holds one record for
\* each line of the file, the first line included, in order.
C19_HeaderOnlySkipped ==
    (/\ call.op = "load_from_file"
     /\ Opened
     /\ FileText # <<>>
     /\ FileText[1] # Header
     /\ GoodLines(FileText) = FileText)
    => OnePerLine(students, FileText)

----------------------------------------------------------------------------
(* The Student object                                                      *)

\* The arguments of the constructor: the two valid ones, and ones with one
\* or two fields against the rules.
ArgsA == <<Id1, NameAb, Male, ClassCS, <<>>, <<>>>>
ArgsB == <<Id2, NameCd, Female, ClassCS, Phone1, Email1>>
Id9 == SubUpTo(Id1, 9)
Id11 == Id1 \o <<"7">>
IdLetter == SubUpTo(Id1, 9) \o <<"x">>
NameShort == <<"a">>
NameLong == [i \in 1..21 |-> "n"]
NameOneCJK == <<"U5F20">>
GenderX == <<"x">>
ClassShort == <<"C", "S">>
PhoneShort == <<"1", "3", "8">>
PhoneTwelve == Phone1 \o <<"0">>
EmailNoDot == <<"a", "@", "b">>

ArgPool ==
    {ArgsA, ArgsB,
     <<Id9, NameAb, Male, ClassCS, <<>>, <<>>>>,
     <<Id11, NameAb, Male, ClassCS, <<>>, <<>>>>,
     <<IdLetter, NameAb, Male, ClassCS, <<>>, <<>>>>,
     <<<<>>, NameAb, Male, ClassCS, <<>>, <<>>>>,
     <<Id9, NameShort, Male, ClassCS, <<>>, <<>>>>,
     <<Id1, NameShort, GenderX, ClassCS, <<>>, <<>>>>,
     <<Id1, NameLong, Male, ClassCS, <<>>, <<>>>>,
     <<Id1, <<>>, Male, ClassCS, <<>>, <<>>>>,
     <<Id1, NameOneCJK, GenderX, ClassShort, <<>>, <<>>>>,
     <<Id1, NameAb, <<>>, <<>>, <<>>, <<>>>>,
     <<Id1, NameAb, Male, ClassShort, PhoneShort, <<>>>>,
     <<Id1, NameAb, Male, <<>>, PhoneShort, <<>>>>,
     <<Id1, NameAb, Male, ClassCS, PhoneTwelve, EmailNoDot>>,
     <<Id1, NameAb, Male, ClassCS, <<>>, EmailNoDot>>}

\* set_score with 95, 60, 101 and -1.
ScoreCalls ==
    {<<Math, 95 * Unit>>, <<Math, 60 * Unit>>, <<En, 60 * Unit>>,
     <<<<>>, 95 * Unit>>, <<Math, 101 * Unit>>, <<En, 0 - Unit>>}

\* A Student object by itself: constructed, changed by its setters and by
\* set_score.
NextRecord ==
    \/ Student_default
    \/ \E a \in ArgPool : Student_construct(a)
    \/ \E id \in {Id2, Id9} : Student_set_id(id)
    \/ \E name \in {NameCd, NameShort} : Student_set_name(name)
    \/ \E gender \in {Female, GenderX} : Student_set_gender(gender)
    \/ \E class_id \in {ClassCS, ClassShort} : Student_set_class_id(class_id)
    \/ \E phone \in {Phone1, PhoneShort, <<>>} : Student_set_phone(phone)
    \/ \E email \in {Email1, EmailNoDot, <<>>} : Student_set_email(email)
    \/ \E c \in ScoreCalls : Student_set_score(c[1], c[2])

SpecRecord == Init /\ [][NextRecord]_vars

\* C14: a second set_score with the arguments of one that was accepted
\* changes nothing: the object, with one entry for the subject, and its
\* average are what they were after the first.
C14_SetScoreIdempotent ==
    (call.op = "Student::set_score" /\ ret = "void")
    => (/\ set_score(record, call.subject, call.score).threw = "ok"
        /\ set_score(record, call.subject, call.score).obj = record
        /\ call.subject \in DOMAIN record.scores
        /\ record.scores[call.subject] = call.score
        /\ DOMAIN record.scores = DOMAIN record_before.scores
                                    \cup {call.subject}
        /\ get_average_score(
             set_score(record, call.subject, call.score).obj)
             = get_average_score(record))

\* C14: the score of a subject was set to the value it had, another
\* subject standing beside it.
C14_Witness ==
    /\ call.op = "Student::set_score"
    /\ ret = "void"
    /\ call.subject \in DOMAIN record_before.scores
    /\ record_before.scores[call.subject] = call.score
    /\ Cardinality(DOMAIN record.scores) = 2
    /\ record = record_before

\* Exactly ten decimal digits.
TenDigits(id) == Len(id) = 10 /\ \A i \in 1..Len(id) : id[i] \in Digit

\* C15: the constructor fails with the error of the first of id, name,
\* gender, class_id, phone (if not empty) and email (if not empty) that is
\* against its rule, the id's rule being exactly ten decimal digits; when
\* none is, the object holds the six values given and no scores.
C15_ConstructorOrder ==
    call.op = "Student::Student"
    => IF ~TenDigits(call.args[1]) THEN ret \in {"id_empty", "id_format"}
       ELSE IF validate_name(call.args[2]) # "ok"
       THEN ret = validate_name(call.args[2])
       ELSE IF validate_gender(call.args[3]) # "ok"
       THEN ret = validate_gender(call.args[3])
       ELSE IF validate_class_id(call.args[4]) # "ok"
       THEN ret = validate_class_id(call.args[4])
       ELSE IF call.args[5] # <<>> /\ validate_phone(call.args[5]) # "ok"
       THEN ret = validate_phone(call.args[5])
       ELSE IF call.args[6] # <<>> /\ validate_email(call.args[6]) # "ok"
       THEN ret = validate_email(call.args[6])
       ELSE /\ ret = "void"
            /\ record = [id |-> call.args[1], name |-> call.args[2],
                         gender |-> call.args[3], class_id |-> call.args[4],
                         phone |-> call.args[5], email |-> call.args[6],
                         scores |-> NoScores]

\* C15: a constructor given an id of nine digits and a name against its
\* rule failed with the error of the id.
C15_Witness ==
    /\ call.op = "Student::Student"
    /\ call.args[1] = Id9
    /\ call.args[2] = NameShort
    /\ ret = "id_format"
    /\ record = record_before

Setters ==
    {"Student::set_id", "Student::set_name", "Student::set_gender",
     "Student::set_class_id", "Student::set_phone", "Student::set_email"}

\* The rule of the field a setter sets: phone and email may be empty.
Accepts(op, v) ==
    CASE op = "Student::set_id" -> TenDigits(v)
      [] op = "Student::set_name" -> validate_name(v) = "ok"
      [] op = "Student::set_gender" -> validate_gender(v) = "ok"
      [] op = "Student::set_class_id" -> validate_class_id(v) = "ok"
      [] op = "Student::set_phone" -> v = <<>> \/ validate_phone(v) = "ok"
      [] op = "Student::set_email" -> v = <<>> \/ validate_email(v) = "ok"

\* s with the field of the setter being v and nothing else changed.
WithField(s, op, v) ==
    CASE op = "Student::set_id" -> [s EXCEPT !.id = v]
      [] op = "Student::set_name" -> [s EXCEPT !.name = v]
      [] op = "Student::set_gender" -> [s EXCEPT !.gender = v]
      [] op = "Student::set_class_id" -> [s EXCEPT !.class_id = v]
      [] op = "Student::set_phone" -> [s EXCEPT !.phone = v]
      [] op = "Student::set_email" -> [s EXCEPT !.email = v]

\* C18: a setter given a value against the rule of its field throws and
\* leaves the object as it was; given any other value (the empty string
\* for phone and email among them) it changes that field alone.
C18_SetterFrame ==
    call.op \in Setters
    => IF ~Accepts(call.op, call.value)
       THEN ret # "void" /\ record = record_before
       ELSE ret = "void"
            /\ record = WithField(record_before, call.op, call.value)

\* C18: set_phone with the empty string cleared the phone of an object
\* that holds a score.
C18_Witness ==
    /\ call.op = "Student::set_phone"
    /\ call.value = <<>>
    /\ ret = "void"
    /\ record_before.phone = Phone1
    /\ record.phone = <<>>
    /\ record.email = Email1
    /\ record.scores # NoScores
    /\ record.scores = record_before.scores

\* C13: every score stored in a record of the roster has a non-empty
\* subject and a value within [0, 100].
C13_ScoresInRange ==
    \A i \in 1..Len(students) :
        \A subject \in DOMAIN students[i].scores :
            /\ subject # <<>>
            /\ students[i].scores[subject] >= 0
            /\ students[i].scores[subject] <= 100 * Unit

----------------------------------------------------------------------------
(* What the roster can come to hold                                        *)

\* A Student object built by the default constructor and the setters, given
\* to add_student and update_student; the records of the roster changed
\* through the pointer of find_student_by_id; files with lines against the
\* rules loaded.
NextHandle ==
    \/ Student_default
    \/ \E id \in {Id1, Id9} : Student_set_id(id)
    \/ \E name \in {NameAb, NameShort} : Student_set_name(name)
    \/ \E gender \in {Male, GenderX} : Student_set_gender(gender)
    \/ Student_set_class_id(ClassCS)
    \/ Student_set_phone(PhoneShort)
    \/ Student_set_email(EmailNoDot)
    \/ add_student(record)
    \/ \E id \in {Id1, Id2} : update_student(id, record)
    \/ \E id \in {Id1, Id3}, v \in {Id2, IdLetter} : Handle_set_id(id, v)
    \/ Handle_set_name(Id1, NameLong)
    \/ Handle_set_gender(Id1, GenderX)
    \/ Handle_set_class_id(Id1, <<>>)
    \/ \E v \in {Phone1, PhoneTwelve} : Handle_set_phone(Id1, v)
    \/ Handle_set_email(Id1, EmailNoDot)
    \/ load_from_file("bad_id")

SpecHandle == Init /\ [][NextHandle]_vars

\* A record whose four required fields are there and pass their
\* validators, with phone and email empty or passing theirs.
Stored(s) ==
    /\ is_valid(s)
    /\ validate_id(s.id) = "ok"
    /\ validate_name(s.name) = "ok"
    /\ validate_gender(s.gender) = "ok"
    /\ validate_class_id(s.class_id) = "ok"
    /\ empty(s.phone) \/ validate_phone(s.phone) = "ok"
    /\ empty(s.email) \/ validate_email(s.email) = "ok"

\* C20: every record of the roster is is_valid() and has an id, a name, a
\* gender and a class_id that pass their validators, and a phone and an
\* email that are empty or pass theirs, however it came there: by add, by
\* update, by a load, or changed by a setter through the pointer of
\* find_student_by_id.
C20_NoInvalidStored ==
    \A i \in 1..Len(students) : Stored(students[i])

\* A setter called through the pointer threw and left the roster as it
\* was, a roster one of whose records had been given a phone through the
\* pointer.
C20_Witness ==
    /\ call.op = "find_student_by_id->set_name"
    /\ call.value = NameLong
    /\ ret \notin {"void", "nullptr"}
    /\ students = before
    /\ \E i \in 1..Len(students) :
         /\ students[i].name = NameAb
         /\ students[i].phone = Phone1
         /\ Stored(students[i])

----------------------------------------------------------------------------
(* Saving and sorting                                                      *)

\* Rosters out of order and with two records of one id, saved under both
\* formats, to a file that opens and to one that does not, and sorted.
NextSave ==
    \/ \E s \in {StudentB, StudentA} : add_student(s)
    \/ update_student(Id3, StudentA2)
    \/ clear_all_students
    \/ sort_students_by_id
    \/ \E f \in SaveNames : save_to_file(f)
    \/ \E f \in SaveNames : save_to_excel_file(f)
    \/ \E f \in {"roster", "dup_ids"} : load_from_file(f)

SpecSave == Init /\ [][NextSave]_vars

\* new holds the records of old, each as it was, in an order that keeps
\* the records of one id in the order they had.
Reordered(old, new) ==
    /\ Len(new) = Len(old)
    /\ \E p \in Perms(1..Len(old)) :
         /\ \A k \in 1..Len(old) : new[k] = old[p[k]]
         /\ \A k, l \in 1..Len(old) :
              (k < l /\ old[p[k]].id = old[p[l]].id) => p[k] < p[l]

\* C22: save_to_file leaves the roster as it was, contents and order;
\* save_to_excel_file and sort_students_by_id leave a roster that holds
\* the records of the roster before, each with its fields and scores as
\* they were, records of one id in the order they had; and a
\* save_to_excel_file that cannot open the file returns false and leaves
\* the roster as it was.
C22_SaveKeepsRecords ==
    /\ call.op = "save_to_file" => students = before
    /\ call.op \in {"save_to_excel_file", "sort_students_by_id"}
         => Reordered(before, students)
    /\ (call.op = "save_to_excel_file" /\ call.filename # WorkFile)
         => (ret = "false" /\ students = before)

\* A save_to_excel_file changed the order of a roster that held two
\* records of one id with a record of a greater id between them.
C22_Witness ==
    /\ call.op = "save_to_excel_file"
    /\ ret = "true"
    /\ Len(before) = 3
    /\ before[1].id = before[3].id
    /\ StrLess(before[1].id, before[2].id)
    /\ students = <<before[1], before[3], before[2]>>

====
